---- MODULE Spec2Model ----
(***************************************************************************)
(* A model of bevy_pkv: the PkvStore facade (src/src/lib.rs) over its      *)
(* backends (redb_store.rs, sled_store.rs, pickledb_store.rs,              *)
(* local_storage_store.rs), with the codecs each backend uses.             *)
(*                                                                         *)
(* One behaviour is one build of the crate (one backend, fixed in Init)    *)
(* running against one storage location.  The location starts without     *)
(* data and no store is constructed yet; PkvStore_new is a process run     *)
(* constructing a store instance on the location.                          *)
(*                                                                         *)
(* Spec is an application that calls the store itself; AppSpec is a Bevy   *)
(* App that tracks one resource with PersistentResourcePlugin              *)
(* (src/src/persistent_resource.rs); MigSpec is the application of         *)
(* src/examples/migration.rs, which reads a record at a newer shape.       *)
(***************************************************************************)
EXTENDS Integers, Sequences, FiniteSets, TLC

(* ------------------------------ bounds -------------------------------- *)

\* number of sample strings taken from StrPool
NumStrs == 2
\* User.age ranges over 0..MaxAge (a u8 in the source's tests)
MaxAge == 1

\* the keys the application uses, in the order of their bytes
KeySeq == <<"key1", "key2">>
Keys == {KeySeq[i] : i \in DOMAIN KeySeq}
KeyIndex(k) == CHOOSE i \in DOMAIN KeySeq : KeySeq[i] = k

(* ------------------------------ values -------------------------------- *)

\* characters: "a" is a letter, Q the double quote, BS the backslash
Q == "\""
BS == "\\"

\* sample strings, as sequences of characters.  The first is plain text that
\* is not JSON, the second is text that happens to be a JSON document.
StrPool == << <<"a">>, <<Q, Q>>, <<>>, <<Q>>, <<"a", "a">> >>
Strings == {StrPool[i] : i \in 1..NumStrs}
Ages == 0..MaxAge

Types == {"String", "User"}

StrV(s) == [t |-> "String", s |-> s]
UserV(n, a) == [t |-> "User", name |-> n, age |-> a]
Values == {StrV(s) : s \in Strings} \cup {UserV(n, a) : n \in Strings, a \in Ages}
TypeOf(v) == v.t

\* the shapes of examples/migration.rs: UserV1 {nick, favorite_color} is the
\* older one, UserV2 {name} the newer one, with #[serde(alias = "nick")]
Color_BEIGE == <<"b">>
UserV1(n) == [t |-> "UserV1", nick |-> n, favorite_color |-> Color_BEIGE]
UserV2(n) == [t |-> "UserV2", name |-> n]

\* the alias is not declared
FieldNames_NoAlias(T, field) == {field}

\* the names under which a field of shape T is accepted by Deserialize
FieldNames(T, field) ==
  IF T = "UserV2" /\ field = "name" THEN {"name", "nick"} ELSE {field}

\* results of a call: Ok(value), Err(variant) or a panic
UnitV == [t |-> "Unit"]
NoneV == [t |-> "None"]
Ok(v) == [kind |-> "Ok", err |-> "", val |-> v]
Err(e) == [kind |-> "Err", err |-> e, val |-> UnitV]
Panic == [kind |-> "Panic", err |-> "panic", val |-> UnitV]

(* ------------------------ records on the medium ----------------------- *)

\* no record under a key
Absent == [fmt |-> "absent"]

(* --------------------- MessagePack (rmp_serde) ------------------------ *)
\* A MessagePack document is a str, an unsigned integer, or a map whose
\* entries carry the field names (Serializer::with_struct_map).

MpStr(s) == [fmt |-> "str", s |-> s]
MpUint(n) == [fmt |-> "uint", n |-> n]
MpMap(entries) == [fmt |-> "map", entries |-> entries]
MpEntry(k, v) == [k |-> k, v |-> v]

\* rmp_serde::to_vec(value) for value: &str
rmp_to_vec_str(s) == MpStr(s)

\* value.serialize(&mut Serializer::new(..).with_struct_map())
rmp_serialize_struct_map(v) ==
  IF TypeOf(v) = "String" THEN MpStr(v.s)
  ELSE IF TypeOf(v) = "UserV1"
  THEN MpMap(<< MpEntry("nick", MpStr(v.nick)),
                MpEntry("favorite_color", MpStr(v.favorite_color)) >>)
  ELSE MpMap(<< MpEntry("name", MpStr(v.name)), MpEntry("age", MpUint(v.age)) >>)

\* the entries of map document m stored under field name f
MpField(m, f) == {i \in 1..Len(m.entries) : m.entries[i].k = f}

\* the entries of map document m that field f of shape T accepts
MpFieldOf(T, m, f) == {i \in 1..Len(m.entries) : m.entries[i].k \in FieldNames(T, f)}

\* the string field f of shape T in map document m: a missing field, a field
\* given twice (under its name and an alias) and a value that is no str are
\* errors; entries of other names are skipped
MpStrField(T, m, f) ==
  LET es == MpFieldOf(T, m, f)
  IN IF Cardinality(es) # 1 THEN Err("MessagePack")
     ELSE LET e == m.entries[CHOOSE i \in es : TRUE].v
          IN IF e.fmt = "str" THEN Ok(e.s) ELSE Err("MessagePack")

\* from_slice at the shapes UserV1 and UserV2
rmp_from_slice_shape(T, rec) ==
  IF rec.fmt # "map" THEN Err("MessagePack")
  ELSE IF T = "UserV2"
  THEN LET n == MpStrField(T, rec, "name")
       IN IF n.kind = "Ok" THEN Ok(UserV2(n.val)) ELSE n
  ELSE LET n == MpStrField(T, rec, "nick")
           c == MpStrField(T, rec, "favorite_color")
       IN IF n.kind = "Ok" /\ c.kind = "Ok"
          THEN Ok([t |-> "UserV1", nick |-> n.val, favorite_color |-> c.val])
          ELSE Err("MessagePack")

\* rmp_serde::from_slice::<T>(bytes): Ok(value) or Err("MessagePack")
rmp_from_slice(T, rec) ==
  IF T = "String"
  THEN IF rec.fmt = "str" THEN Ok(StrV(rec.s)) ELSE Err("MessagePack")
  ELSE IF T \in {"UserV1", "UserV2"} THEN rmp_from_slice_shape(T, rec)
  ELSE IF rec.fmt # "map" THEN Err("MessagePack")
  ELSE LET ns == MpField(rec, "name")
           as == MpField(rec, "age")
       IN IF Cardinality(ns) # 1 \/ Cardinality(as) # 1 THEN Err("MessagePack")
          ELSE LET n == rec.entries[CHOOSE i \in ns : TRUE].v
                   a == rec.entries[CHOOSE i \in as : TRUE].v
               IN IF n.fmt = "str" /\ a.fmt = "uint" /\ a.n \in 0..255
                  THEN Ok(UserV(n.s, a.n))
                  ELSE Err("MessagePack")

(* ------------------- bincode (pickledb, Bin method) ------------------- *)
\* bincode is positional: the items follow each other without field names.
\* bincode::deserialize reads the items the type asks for and (with
\* allow_trailing_bytes) ignores what follows.

BinStr(s) == [b |-> "str", s |-> s]
BinU8(n) == [b |-> "u8", n |-> n]
Bin(items) == [fmt |-> "bin", items |-> items]

bincode_serialize(v) ==
  IF TypeOf(v) = "String" THEN Bin(<< BinStr(v.s) >>)
  ELSE IF TypeOf(v) = "UserV1" THEN Bin(<< BinStr(v.nick), BinStr(v.favorite_color) >>)
  ELSE Bin(<< BinStr(v.name), BinU8(v.age) >>)

\* pickledb's BincodeSerializer::deserialize_data: Some(value) is Ok, None is
\* Err("None")
bincode_deserialize(T, rec) ==
  IF rec.fmt # "bin" THEN Err("None")
  ELSE IF T = "String"
  THEN IF Len(rec.items) >= 1 /\ rec.items[1].b = "str"
       THEN Ok(StrV(rec.items[1].s)) ELSE Err("None")
  ELSE IF T = "UserV2"
  THEN IF Len(rec.items) >= 1 /\ rec.items[1].b = "str"
       THEN Ok(UserV2(rec.items[1].s)) ELSE Err("None")
  ELSE IF T = "UserV1"
  THEN IF Len(rec.items) >= 2 /\ rec.items[1].b = "str" /\ rec.items[2].b = "str"
       THEN Ok([t |-> "UserV1", nick |-> rec.items[1].s, favorite_color |-> rec.items[2].s])
       ELSE Err("None")
  ELSE IF Len(rec.items) >= 2 /\ rec.items[1].b = "str" /\ rec.items[2].b = "u8"
       THEN Ok(UserV(rec.items[1].s, rec.items[2].n))
  \* the u8 of a User read where a string stands is the low byte of the
  \* string's length prefix
  ELSE IF Len(rec.items) >= 2 /\ rec.items[1].b = "str" /\ rec.items[2].b = "str"
       THEN Ok(UserV(rec.items[1].s, Len(rec.items[2].s) % 256))
       ELSE Err("None")

(* ------------------------ JSON (serde_json) --------------------------- *)
\* A JSON text is a sequence of characters (a field name counts as one
\* character of the string holding it).

Text(chars) == [fmt |-> "text", chars |-> chars]

RECURSIVE JsonEscape(_)
\* the characters of a string as they stand between the quotes of a JSON
\* string: quote and backslash get a backslash before them
JsonEscape(s) ==
  IF s = <<>> THEN <<>>
  ELSE (IF Head(s) \in {Q, BS} THEN <<BS, Head(s)>> ELSE <<Head(s)>>)
       \o JsonEscape(Tail(s))

JsonString(s) == <<Q>> \o JsonEscape(s) \o <<Q>>

RECURSIVE JsonDigits(_)
JsonDigits(n) ==
  IF n < 10 THEN <<ToString(n)>> ELSE JsonDigits(n \div 10) \o <<ToString(n % 10)>>

\* serde_json::to_string(value)
serde_json_to_string(v) ==
  IF TypeOf(v) = "String" THEN JsonString(v.s)
  ELSE IF TypeOf(v) = "UserV1"
  THEN <<"{">> \o JsonString(<<"nick">>) \o <<":">> \o JsonString(v.nick)
       \o <<",">> \o JsonString(<<"favorite_color">>) \o <<":">>
       \o JsonString(v.favorite_color) \o <<"}">>
  ELSE <<"{">> \o JsonString(<<"name">>) \o <<":">> \o JsonString(v.name)
       \o <<",">> \o JsonString(<<"age">>) \o <<":">> \o JsonDigits(v.age)
       \o <<"}">>

IsDigit(c) == c \in {ToString(d) : d \in 0..9}
DigitVal(c) == CHOOSE d \in 0..9 : ToString(d) = c
JsonFail == [ok |-> FALSE, next |-> 0]

RECURSIVE JsonScanString(_, _, _)
\* the string whose opening quote was just read, from position i on
JsonScanString(t, i, acc) ==
  IF i > Len(t) THEN JsonFail
  ELSE IF t[i] = Q THEN [ok |-> TRUE, next |-> i + 1, j |-> "str", s |-> acc]
  ELSE IF t[i] = BS
  THEN IF i + 1 <= Len(t) /\ t[i + 1] \in {Q, BS}
       THEN JsonScanString(t, i + 2, Append(acc, t[i + 1]))
       ELSE JsonFail
  ELSE JsonScanString(t, i + 1, Append(acc, t[i]))

JsonParseString(t, i) ==
  IF i <= Len(t) /\ t[i] = Q THEN JsonScanString(t, i + 1, <<>>) ELSE JsonFail

RECURSIVE JsonScanNumber(_, _, _)
JsonScanNumber(t, i, acc) ==
  IF i <= Len(t) /\ IsDigit(t[i])
  THEN JsonScanNumber(t, i + 1, 10 * acc + DigitVal(t[i]))
  ELSE [ok |-> TRUE, next |-> i, j |-> "num", n |-> acc]

\* a JSON number without a leading zero
JsonParseNumber(t, i) ==
  IF i <= Len(t) /\ IsDigit(t[i]) /\ ~(t[i] = "0" /\ i + 1 <= Len(t) /\ IsDigit(t[i + 1]))
  THEN JsonScanNumber(t, i, 0) ELSE JsonFail

JsonParseValue(t, i) ==
  IF i <= Len(t) /\ t[i] = Q THEN JsonParseString(t, i) ELSE JsonParseNumber(t, i)

RECURSIVE JsonParseMembers(_, _, _)
\* the members of an object, from position i (after "{" or ",") on
JsonParseMembers(t, i, acc) ==
  LET key == JsonParseString(t, i)
  IN IF ~key.ok \/ key.next > Len(t) \/ t[key.next] # ":" THEN JsonFail
     ELSE LET val == JsonParseValue(t, key.next + 1)
          IN IF ~val.ok \/ val.next > Len(t) THEN JsonFail
             ELSE LET all == Append(acc, [k |-> key.s, v |-> val])
                  IN IF t[val.next] = "," THEN JsonParseMembers(t, val.next + 1, all)
                     ELSE IF t[val.next] = "}"
                     THEN [ok |-> TRUE, next |-> val.next + 1, members |-> all]
                     ELSE JsonFail

JsonMember(ms, f) == {i \in 1..Len(ms) : ms[i].k = <<f>>}

\* the string field f of shape T among the members ms
JsonStrField(T, ms, f) ==
  LET es == {i \in 1..Len(ms) : \E n \in FieldNames(T, f) : ms[i].k = <<n>>}
  IN IF Cardinality(es) # 1 THEN Err("Json")
     ELSE LET e == ms[CHOOSE i \in es : TRUE].v
          IN IF e.j = "str" THEN Ok(e.s) ELSE Err("Json")

\* from_str at the shapes UserV1 and UserV2, given the members of the object
serde_json_from_members(T, ms) ==
  IF T = "UserV2"
  THEN LET n == JsonStrField(T, ms, "name")
       IN IF n.kind = "Ok" THEN Ok(UserV2(n.val)) ELSE n
  ELSE LET n == JsonStrField(T, ms, "nick")
           c == JsonStrField(T, ms, "favorite_color")
       IN IF n.kind = "Ok" /\ c.kind = "Ok"
          THEN Ok([t |-> "UserV1", nick |-> n.val, favorite_color |-> c.val])
          ELSE Err("Json")

\* serde_json::from_str::<T>(json): Ok(value) or Err("Json")
serde_json_from_str(T, t) ==
  IF T = "String"
  THEN LET r == JsonParseString(t, 1)
       IN IF r.ok /\ r.next = Len(t) + 1 THEN Ok(StrV(r.s)) ELSE Err("Json")
  ELSE IF ~(Len(t) >= 1 /\ t[1] = "{") THEN Err("Json")
  ELSE LET r == JsonParseMembers(t, 2, <<>>)
       IN IF ~(r.ok /\ r.next = Len(t) + 1) THEN Err("Json")
          ELSE IF T \in {"UserV1", "UserV2"} THEN serde_json_from_members(T, r.members)
          ELSE LET ns == JsonMember(r.members, "name")
                   as == JsonMember(r.members, "age")
               IN IF Cardinality(ns) # 1 \/ Cardinality(as) # 1 THEN Err("Json")
                  ELSE LET n == r.members[CHOOSE i \in ns : TRUE].v
                           a == r.members[CHOOSE i \in as : TRUE].v
                       IN IF n.j = "str" /\ a.j = "num" /\ a.n \in 0..255
                          THEN Ok(UserV(n.s, a.n))
                          ELSE Err("Json")

(* ------------------------------ state --------------------------------- *)

Backends == {"redb", "sled", "pickledb", "local_storage"}

VARIABLES
  cfg,        \* the cfg flags the crate is compiled with
  backend,    \* the backend compiled in as backend::InnerStore
  dir,        \* the directory of the storage location: "absent", "present",
              \* or "none" for the browser's local storage
  disk,       \* the records on the storage location, by key
  table,      \* redb: TABLE exists in the database file
  mem,        \* pickledb: the map the PickleDb handle holds in memory
  alive,      \* FALSE once a call has panicked, until the next process run
  lastTouch,  \* by key, the last set, set_string, remove, remove_and_get or
              \* clear that touched the key: the value it wrote or returned,
              \* what it found, and the store instance it ran in
  pc,         \* the App: "none" (no App runs), "plugins" (the store is
              \* inserted, the plugin not yet built), "Update" (in a cycle,
              \* before PostUpdate), "Last" (in a cycle, after PostUpdate)
  resource,   \* the tracked resource in the World, NoneV when there is none
  changed,    \* resource_changed::<T>: the resource was added or mutably
              \* dereferenced since the run condition was last checked
  mutated,    \* the application mutated the resource since that check
  startup,    \* the get(key) of build in this run: what it returned, and the
              \* step at which the engine failed
  save,       \* what the save step of this cycle did
  early,      \* the resource was mutated in this cycle before the save step
  resourceB,  \* a second tracked resource, of another type
  changedB,   \* resource_changed of the second resource
  startupB,   \* the get(key) of the second plugin's build in this run
  checkedB    \* PostUpdate of this cycle has checked the second resource

bVars == <<resourceB, changedB, startupB, checkedB>>

appVars == <<pc, resource, changed, mutated, startup, save, early, bVars>>

vars == <<cfg, backend, dir, disk, table, mem, alive, lastTouch, appVars>>

Empty == [k \in Keys |-> Absent]

\* the effect of a call: what it returns and what it leaves behind
Eff(res, d, m, tb) == [res |-> res, disk |-> d, mem |-> m, table |-> tb]
NoChange(res) == Eff(res, disk, mem, table)

\* the proper subsets of the keys present in map m that an iteration over
\* them can have passed when it stops early; in key order when ordered
Passed(m, ordered) ==
  LET present == {k \in Keys : m[k] # Absent}
  IN {d \in SUBSET present :
        /\ d # present
        /\ ordered => \A k \in d : \A j \in present : KeyIndex(j) < KeyIndex(k) => j \in d}

(* ------------------------------- redb --------------------------------- *)

ReDbStore_new(f) ==
  IF f \in {"create_dir_all", "create"} THEN NoChange(Panic) ELSE NoChange(Ok(UnitV))

\* the write transaction is dropped without commit
ReDbStore_write_NoCommit(k, bytes, f) ==
  IF f = "begin_write" THEN NoChange(Err("ReDbTransactionError"))
  ELSE IF f = "open_table" THEN NoChange(Panic)
  ELSE IF f = "insert" THEN NoChange(Err("ReDbStorageError"))
  ELSE NoChange(Ok(UnitV))

ReDbStore_write(k, bytes, f) ==
  IF f = "begin_write" THEN NoChange(Err("ReDbTransactionError"))
  ELSE IF f = "open_table" THEN NoChange(Panic)
  ELSE IF f = "insert" THEN NoChange(Err("ReDbStorageError"))
  ELSE IF f = "commit" THEN NoChange(Err("ReDbCommitError"))
  ELSE Eff(Ok(UnitV), [disk EXCEPT ![k] = bytes], mem, TRUE)

ReDbStore_set(k, v, f) == ReDbStore_write(k, rmp_serialize_struct_map(v), f)

ReDbStore_set_string(k, s, f) == ReDbStore_write(k, rmp_to_vec_str(s), f)

\* the Option of table.get is unwrapped
ReDbStore_get_Unwrap(k, T, f) ==
  IF f = "begin_read" THEN Err("ReDbTransactionError")
  ELSE IF f = "open_table" \/ ~table THEN Err("ReDbTableError")
  ELSE IF f = "get" THEN Err("ReDbStorageError")
  ELSE IF disk[k] = Absent THEN Panic
  ELSE rmp_from_slice(T, disk[k])

ReDbStore_get(k, T, f) ==
  IF f = "begin_read" THEN Err("ReDbTransactionError")
  ELSE IF f = "open_table" \/ ~table THEN Err("ReDbTableError")
  ELSE IF f = "get" THEN Err("ReDbStorageError")
  ELSE IF disk[k] = Absent THEN Err("NotFound")
  ELSE rmp_from_slice(T, disk[k])

ReDbStore_clear(f, done) ==
  IF f = "begin_write" THEN NoChange(Err("ReDbTransactionError"))
  ELSE IF f = "delete_table" THEN NoChange(Err("ReDbTableError"))
  ELSE IF f = "commit" THEN NoChange(Err("ReDbCommitError"))
  ELSE Eff(Ok(UnitV), Empty, mem, FALSE)

(* ------------------------------- sled --------------------------------- *)

SledStore_new(f) ==
  IF f = "open" THEN NoChange(Panic) ELSE NoChange(Ok(UnitV))

SledStore_set(k, v, f) ==
  IF f = "insert" THEN NoChange(Err("Sled"))
  ELSE Eff(Ok(UnitV), [disk EXCEPT ![k] = rmp_serialize_struct_map(v)], mem, table)

SledStore_set_string(k, s, f) ==
  IF f = "insert" THEN NoChange(Err("Sled"))
  ELSE Eff(Ok(UnitV), [disk EXCEPT ![k] = rmp_to_vec_str(s)], mem, table)

\* a missing key is handed to the decoder as an empty record
SledStore_get_DecodeMissing(k, T, f) ==
  IF f = "get" THEN Err("Sled")
  ELSE IF disk[k] = Absent THEN Err("MessagePack")
  ELSE rmp_from_slice(T, disk[k])

SledStore_get(k, T, f) ==
  IF f = "get" THEN Err("Sled")
  ELSE IF disk[k] = Absent THEN Err("NotFound")
  ELSE rmp_from_slice(T, disk[k])

\* sled's Tree::clear removes the keys one by one, in key order, and stops at
\* the first failure
SledStore_clear(f, done) ==
  IF f = "clear"
  THEN Eff(Err("Sled"), [k \in Keys |-> IF k \in done THEN Absent ELSE disk[k]], mem, table)
  ELSE Eff(Ok(UnitV), Empty, mem, table)

(* ----------------------------- pickledb ------------------------------- *)

\* PickleDb::new starts from an empty map; the file is written by the first
\* dump
PickleDBStore_new(f) == Eff(Ok(UnitV), disk, Empty, table)

\* the record of a key that has one is kept
PickleDBStore_set_KeepFirst(k, v, f) ==
  LET m == IF mem[k] = Absent THEN [mem EXCEPT ![k] = bincode_serialize(v)] ELSE mem
  IN IF f = "dump" THEN NoChange(Err("PickleDb")) ELSE Eff(Ok(UnitV), m, m, table)

\* PickleDb::set under AutoDump: insert, dump the whole map, and put the old
\* entry back when the dump fails
PickleDBStore_set(k, v, f) ==
  LET m == [mem EXCEPT ![k] = bincode_serialize(v)]
  IN IF f = "dump" THEN NoChange(Err("PickleDb")) ELSE Eff(Ok(UnitV), m, m, table)

PickleDBStore_set_string(k, s, f) == PickleDBStore_set(k, StrV(s), f)

\* PickleDb::get is None for a missing key and for a record that does not
\* deserialize
PickleDBStore_get(k, T, f) ==
  IF mem[k] = Absent \/ bincode_deserialize(T, mem[k]).kind # "Ok"
  THEN Err("NotFound")
  ELSE bincode_deserialize(T, mem[k])

\* rem for every key of get_all(), each followed by a dump; the first failing
\* rem puts its key back and ends the loop
PickleDBStore_clear(f, done) ==
  IF f = "dump"
  THEN LET m == [k \in Keys |-> IF k \in done THEN Absent ELSE mem[k]]
       IN Eff(Err("PickleDb"), IF done = {} THEN disk ELSE m, m, table)
  ELSE Eff(Ok(UnitV), IF mem = Empty THEN disk ELSE Empty, Empty, table)

(* --------------------------- local storage ---------------------------- *)

LocalStorageStore_new(f) == NoChange(Ok(UnitV))

LocalStorageStore_set_string(k, s, f) ==
  IF f = "storage" THEN NoChange(Panic)
  ELSE IF f = "set_item" THEN NoChange(Err("SetItem"))
  ELSE Eff(Ok(UnitV), [disk EXCEPT ![k] = Text(s)], mem, table)

LocalStorageStore_get(k, T, f) ==
  IF f = "storage" THEN Panic
  ELSE IF f = "get_item" THEN Err("GetItem")
  ELSE IF disk[k] = Absent THEN Err("NotFound")
  ELSE IF serde_json_from_str(T, disk[k].chars).kind = "Ok"
  THEN serde_json_from_str(T, disk[k].chars)
  ELSE Panic

LocalStorageStore_set(k, v, f) ==
  IF f = "storage" THEN NoChange(Panic)
  ELSE IF f = "set_item" THEN NoChange(Err("SetItem"))
  ELSE Eff(Ok(UnitV), [disk EXCEPT ![k] = Text(serde_json_to_string(v))], mem, table)

\* clear of the local storage backend, as the contract states it
LocalStorageStore_clear(f, done) ==
  IF f = "io" THEN NoChange(Err("SetItem")) ELSE Eff(Ok(UnitV), Empty, mem, table)

(* ------------------- the contract's missing parts --------------------- *)
\* remove and remove_and_get are declared by StoreImpl and called by the
\* facade; the backends' implementations follow the store contract.

\* the key-to-record map that get reads
Visible == IF backend = "pickledb" THEN mem ELSE disk

\* the backend's codec, decoding
Codec_decode(T, rec) ==
  CASE backend \in {"redb", "sled"} -> rmp_from_slice(T, rec)
    [] backend = "pickledb" -> bincode_deserialize(T, rec)
    [] backend = "local_storage" -> serde_json_from_str(T, rec.chars)

\* the state with the record of k deleted
Without(k, res) ==
  LET m == [Visible EXCEPT ![k] = Absent]
  IN IF backend = "pickledb" THEN Eff(res, m, m, table) ELSE Eff(res, m, mem, table)

\* a missing key is reported as an error
StoreImpl_remove_NotFound(k, f) ==
  IF f = "io" THEN NoChange(Err("RemoveError"))
  ELSE IF Visible[k] = Absent THEN NoChange(Err("NotFound"))
  ELSE Without(k, Ok(UnitV))

StoreImpl_remove(k, f) ==
  IF f = "io" THEN NoChange(Err("RemoveError"))
  ELSE IF Visible[k] = Absent THEN NoChange(Ok(UnitV))
  ELSE Without(k, Ok(UnitV))

\* keep: whether a record that does not decode as T is still there afterwards
\* (the contract does not say)
StoreImpl_remove_and_get(k, T, f, keep) ==
  IF f = "io" THEN NoChange(Err("RemoveError"))
  ELSE IF Visible[k] = Absent THEN NoChange(Ok(NoneV))
  ELSE IF Codec_decode(T, Visible[k]).kind = "Ok"
  THEN Without(k, Codec_decode(T, Visible[k]))
  ELSE IF keep THEN NoChange(Err("Decode")) ELSE Without(k, Err("Decode"))

(* ------------------------- backend selection -------------------------- *)

\* the cfg flags lib.rs reads: wasm for the target, one per native backend
Flags == {"wasm", "rocksdb_backend", "sled_backend", "redb_backend"}
Native == {"rocksdb_backend", "sled_backend", "redb_backend"}

\* a configuration is the set of flags that are set
Configs == SUBSET Flags

\* the two compile_error! checks at the head of lib.rs
compile_error(c) ==
  \/ Native \subseteq c
  \/ c \cap Flags = {}

\* the modules lib.rs imports under the name backend
Imported(c) ==
  {b \in {"local_storage", "sled", "rocksdb", "redb"} :
     \/ b = "local_storage" /\ "wasm" \in c
     \/ b = "sled" /\ "sled_backend" \in c
     \/ b = "rocksdb" /\ "rocksdb_backend" \in c
     \/ b = "redb" /\ "redb_backend" \in c}

\* only the compile_error! checks reject a build
Rejected_ChecksOnly(c) == compile_error(c)

\* the build fails: a compile_error! fires, the name backend is imported
\* more than once, or backend::InnerStore names nothing
Rejected(c) ==
  \/ compile_error(c)
  \/ Cardinality(Imported(c)) # 1

\* the configuration that binds backend b; no flag binds pickledb_store,
\* which lib.rs does not declare
Selects(b) ==
  {f \in Flags :
     \/ f = "wasm" /\ b = "local_storage"
     \/ f = "sled_backend" /\ b = "sled"
     \/ f = "rocksdb_backend" /\ b = "rocksdb"
     \/ f = "redb_backend" /\ b = "redb"}

Inner_new(f) ==
  CASE backend = "redb" -> ReDbStore_new(f)
    [] backend = "sled" -> SledStore_new(f)
    [] backend = "pickledb" -> PickleDBStore_new(f)
    [] backend = "local_storage" -> LocalStorageStore_new(f)

Inner_set(k, v, f) ==
  CASE backend = "redb" -> ReDbStore_set(k, v, f)
    [] backend = "sled" -> SledStore_set(k, v, f)
    [] backend = "pickledb" -> PickleDBStore_set(k, v, f)
    [] backend = "local_storage" -> LocalStorageStore_set(k, v, f)

Inner_set_string(k, s, f) ==
  CASE backend = "redb" -> ReDbStore_set_string(k, s, f)
    [] backend = "sled" -> SledStore_set_string(k, s, f)
    [] backend = "pickledb" -> PickleDBStore_set_string(k, s, f)
    [] backend = "local_storage" -> LocalStorageStore_set_string(k, s, f)

Inner_get(k, T, f) ==
  CASE backend = "redb" -> ReDbStore_get(k, T, f)
    [] backend = "sled" -> SledStore_get(k, T, f)
    [] backend = "pickledb" -> PickleDBStore_get(k, T, f)
    [] backend = "local_storage" -> LocalStorageStore_get(k, T, f)

Inner_clear(f, done) ==
  CASE backend = "redb" -> ReDbStore_clear(f, done)
    [] backend = "sled" -> SledStore_clear(f, done)
    [] backend = "pickledb" -> PickleDBStore_clear(f, done)
    [] backend = "local_storage" -> LocalStorageStore_clear(f, done)

(* -------------------- failures of the storage engine ------------------ *)
\* The step of a call at which the engine fails, "none" when none does.

NewFaults ==
  CASE backend = "redb" -> {"none", "create_dir_all", "create"}
    [] backend = "sled" -> {"none", "open"}
    [] OTHER -> {"none"}

SetFaults ==
  CASE backend = "redb" -> {"none", "begin_write", "open_table", "insert", "commit"}
    [] backend = "sled" -> {"none", "insert"}
    [] backend = "pickledb" -> IF dir = "present" THEN {"none", "dump"} ELSE {"dump"}
    [] backend = "local_storage" -> {"none", "storage", "set_item"}

GetFaults ==
  CASE backend = "redb" -> {"none", "begin_read", "open_table", "get"}
    [] backend = "sled" -> {"none", "get"}
    [] backend = "pickledb" -> {"none"}
    [] backend = "local_storage" -> {"none", "storage", "get_item"}

RemoveFaults == {"none", "io"}

\* a failing clear with the keys it had already passed
ClearInputs ==
  {<<"none", {}>>} \cup
  CASE backend = "redb" -> {<<f, {}>> : f \in {"begin_write", "delete_table", "commit"}}
    [] backend = "sled" -> {<<"clear", d>> : d \in Passed(disk, TRUE)}
    [] backend = "pickledb" -> {<<"dump", d>> : d \in Passed(mem, FALSE)}
    [] backend = "local_storage" -> {<<"io", {}>>}

(* ------------------------------ PkvStore ------------------------------ *)

\* a successful call is remembered with the value it wrote or returned, a
\* failed one as "failed"
NoTouch == [op |-> "none", val |-> UnitV, prev |-> "-", inst |-> "this"]

\* what a set, a remove or a clear finds under k: the key just written by a
\* successful set or set_string, a key without a visible record, or anything
\* else
Found(op, k) ==
  IF op \notin {"set", "remove", "clear"} THEN "-"
  ELSE IF lastTouch[k].op \in {"set", "set_string"} THEN lastTouch[k].op
  ELSE IF Visible[k] = Absent THEN "absent"
  ELSE "other"

Touch(op, res, v, k) ==
  IF res.kind = "Ok" THEN [op |-> op, val |-> v, prev |-> Found(op, k), inst |-> "this"]
  ELSE [op |-> "failed", val |-> UnitV, prev |-> "-", inst |-> "this"]
\* a call with effect e that touches the keys in touched
Apply(e, op, touched, v) ==
  /\ disk' = e.disk
  /\ mem' = e.mem
  /\ table' = e.table
  /\ alive' = (e.res.kind # "Panic")
  /\ lastTouch' = [j \in Keys |-> IF j \in touched THEN Touch(op, e.res, v, j) ELSE lastTouch[j]]
  /\ UNCHANGED <<cfg, backend, dir>>

\* no second tracked resource is in the World
NoB ==
  /\ resourceB = NoneV
  /\ changedB = FALSE
  /\ startupB = NoneV
  /\ checkedB = FALSE

\* no App with the plugin runs
NoApp ==
  /\ pc = "none"
  /\ resource = NoneV
  /\ changed = FALSE
  /\ mutated = FALSE
  /\ startup = NoneV
  /\ save = "-"
  /\ early = FALSE
  /\ NoB

\* the location before the first process run: no data, and a directory that
\* may not exist yet
Init ==
  /\ backend \in Backends
  /\ cfg = Selects(backend)
  /\ dir \in (IF backend = "local_storage" THEN {"none"} ELSE {"absent", "present"})
  /\ disk = Empty
  /\ table = FALSE
  /\ mem = Empty
  /\ alive = FALSE
  /\ lastTouch = [k \in Keys |-> NoTouch]
  /\ NoApp

\* the directory of the location after InnerStore::new: redb's new calls
\* create_dir_all, sled::open creates it, PickleDb::new touches no file
Inner_new_dir(f) ==
  CASE backend = "redb" -> IF f = "create_dir_all" THEN dir ELSE "present"
    [] backend = "sled" -> IF f = "open" THEN dir ELSE "present"
    [] OTHER -> dir

\* a process run constructs a store instance on the location
Construct(f) ==
  LET e == Inner_new(f)
  IN /\ disk' = e.disk
     /\ mem' = e.mem
     /\ table' = e.table
     /\ dir' = Inner_new_dir(f)
     /\ alive' = (e.res.kind # "Panic")
     /\ lastTouch' = [k \in Keys |->
          IF lastTouch[k].op = "none" THEN lastTouch[k]
          ELSE [lastTouch[k] EXCEPT !.inst = "earlier"]]
     /\ UNCHANGED <<cfg, backend>>

PkvStore_new(f) ==
  /\ Construct(f)
  /\ UNCHANGED appVars

PkvStore_set(k, v, f) ==
  /\ alive
  /\ Apply(Inner_set(k, v, f), "set", {k}, v)
  /\ UNCHANGED appVars

PkvStore_set_string(k, s, f) ==
  /\ alive
  /\ Apply(Inner_set_string(k, s, f), "set_string", {k}, StrV(s))
  /\ UNCHANGED appVars

PkvStore_get(k, T, f) ==
  /\ alive
  /\ Apply(NoChange(Inner_get(k, T, f)), "get", {}, UnitV)
  /\ UNCHANGED appVars

PkvStore_remove_and_get(k, T, f, keep) ==
  /\ alive
  /\ LET e == StoreImpl_remove_and_get(k, T, f, keep)
     IN Apply(e, "remove_and_get", {k}, e.res.val)
  /\ UNCHANGED appVars

PkvStore_remove(k, f) ==
  /\ alive
  /\ Apply(StoreImpl_remove(k, f), "remove", {k}, UnitV)
  /\ UNCHANGED appVars

PkvStore_clear(f, done) ==
  /\ alive
  /\ Apply(Inner_clear(f, done), "clear", Keys, UnitV)
  /\ UNCHANGED appVars

Next ==
  \/ \E f \in NewFaults : PkvStore_new(f)
  \/ \E k \in Keys, v \in Values, f \in SetFaults : PkvStore_set(k, v, f)
  \/ \E k \in Keys, s \in Strings, f \in SetFaults : PkvStore_set_string(k, s, f)
  \/ \E k \in Keys, T \in Types, f \in GetFaults : PkvStore_get(k, T, f)
  \/ \E k \in Keys, T \in Types, f \in RemoveFaults, keep \in BOOLEAN :
       PkvStore_remove_and_get(k, T, f, keep)
  \/ \E k \in Keys, f \in RemoveFaults : PkvStore_remove(k, f)
  \/ \E c \in ClearInputs : PkvStore_clear(c[1], c[2])

Spec == Init /\ [][Next]_vars

(* ------------------------------ the build ------------------------------ *)
\* The crate is compiled under a configuration of cfg flags, and a program
\* linked against it constructs and uses the store.

\* no crate is compiled yet
Unbound == "-"

BuildInit ==
  /\ cfg \in Configs
  /\ backend = Unbound
  /\ dir \in (IF "wasm" \in cfg THEN {"none"} ELSE {"absent", "present"})
  /\ disk = Empty
  /\ table = FALSE
  /\ mem = Empty
  /\ alive = FALSE
  /\ lastTouch = [k \in Keys |-> NoTouch]
  /\ NoApp

\* the compiler accepts the crate and resolves backend::InnerStore, the type
\* of PkvStore's field inner
cargo_build ==
  /\ backend = Unbound
  /\ ~Rejected(cfg)
  /\ backend' \in Imported(cfg)
  /\ UNCHANGED <<cfg, dir, disk, table, mem, alive, lastTouch, appVars>>

BuildNext ==
  \/ cargo_build
  \/ /\ backend \in Backends
     /\ \/ \E f \in NewFaults : PkvStore_new(f)
        \/ \E k \in Keys, s \in Strings, f \in SetFaults : PkvStore_set_string(k, s, f)
        \/ \E k \in Keys, f \in GetFaults : PkvStore_get(k, "String", f)
        \/ \E c \in ClearInputs : PkvStore_clear(c[1], c[2])

BuildSpec == BuildInit /\ [][BuildNext]_vars

(* ---------------------- PersistentResourcePlugin ---------------------- *)
\* A Bevy App with one tracked resource type T, here User.  App::run drives
\* cycles of the Main schedule: the application's systems (Update), then
\* PostUpdate with the save system, then Last.

\* std::any::type_name::<T>(), the key of the tracked resource
type_name == KeySeq[1]

\* the values the tracked resource takes
Tracked == {UserV(StrPool[1], a) : a \in Ages}

\* the output of the caller's factory
factory == UserV(StrPool[1], 0)

\* the values the application itself stores under the key
AppValues == Tracked \cup {StrV(StrPool[1])}

\* App::new().insert_resource(PkvStore::new(..)): a process run starts
App_new(f) ==
  /\ pc = "none"
  /\ Construct(f)
  /\ pc' = IF alive' THEN "plugins" ELSE "none"
  /\ resource' = NoneV
  /\ changed' = FALSE
  /\ mutated' = FALSE
  /\ startup' = NoneV
  /\ save' = "-"
  /\ early' = FALSE
  /\ resourceB' = NoneV
  /\ changedB' = FALSE
  /\ startupB' = NoneV
  /\ checkedB' = FALSE

\* the factory's output is inserted without a get
PersistentResourcePlugin_build_NoLoad(f) ==
  /\ pc = "plugins"
  /\ pc' = "Update"
  /\ resource' = factory
  /\ changed' = TRUE
  /\ UNCHANGED <<cfg, backend, dir, disk, table, mem, alive, lastTouch, mutated, startup, save, early, bVars>>

\* Plugin::build: get, the factory when get returns an error, then
\* insert_resource, which marks the resource as added and changed, and
\* add_systems
PersistentResourcePlugin_build(f) ==
  LET g == Inner_get(type_name, "User", f)
  IN /\ pc = "plugins"
     /\ startup' = [get |-> g, fault |-> f]
     /\ IF g.kind = "Panic"
        THEN /\ pc' = "none"
             /\ alive' = FALSE
             /\ UNCHANGED <<resource, changed>>
        ELSE /\ pc' = "Update"
             /\ resource' = (IF g.kind = "Ok" THEN g.val ELSE factory)
             /\ changed' = TRUE
             /\ UNCHANGED alive
     /\ UNCHANGED <<cfg, backend, dir, disk, table, mem, lastTouch, mutated, save, early, bVars>>

\* the assignment goes around change detection
App_mutate_Untracked(v) ==
  /\ pc \in {"Update", "Last"}
  /\ resource' = v
  /\ UNCHANGED <<cfg, backend, dir, disk, table, mem, alive, lastTouch, pc, changed, mutated, startup, save, early, bVars>>

\* a system of the application takes ResMut<T> and assigns through it, before
\* or after PostUpdate
App_mutate(v) ==
  /\ pc \in {"Update", "Last"}
  /\ resource' = v
  /\ changed' = TRUE
  /\ mutated' = TRUE
  /\ early' = (early \/ pc = "Update")
  /\ UNCHANGED <<cfg, backend, dir, disk, table, mem, alive, lastTouch, pc, startup, save, bVars>>

\* a system of the application calls the store itself on the tracked key
App_set(v) ==
  /\ pc \in {"Update", "Last"}
  /\ PkvStore_set(type_name, v, "none")

App_remove ==
  /\ pc \in {"Update", "Last"}
  /\ PkvStore_remove(type_name, "none")

\* the value build inserted is written, not the current one
save_resource_Stale(f) ==
  /\ pc = "Update"
  /\ changed' = FALSE
  /\ mutated' = FALSE
  /\ UNCHANGED <<resource, startup, early, bVars>>
  /\ IF changed
     THEN LET e == Inner_set(type_name, IF startup.get.kind = "Ok" THEN startup.get.val ELSE factory, f)
          IN /\ Apply(e, "save", {type_name}, resource)
             /\ save' = e.res.kind
             /\ pc' = IF e.res.kind = "Panic" THEN "none" ELSE "Last"
     ELSE /\ save' = "skipped"
          /\ pc' = "Last"
          /\ UNCHANGED <<cfg, backend, dir, disk, table, mem, alive, lastTouch>>

\* the run condition is resource_added::<T>
save_resource_Added(f) ==
  /\ pc = "Update"
  /\ changed' = FALSE
  /\ mutated' = FALSE
  /\ UNCHANGED <<resource, startup, early, bVars>>
  /\ IF changed /\ ~mutated
     THEN LET e == Inner_set(type_name, resource, f)
          IN /\ Apply(e, "save", {type_name}, resource)
             /\ save' = e.res.kind
             /\ pc' = IF e.res.kind = "Panic" THEN "none" ELSE "Last"
     ELSE /\ save' = "skipped"
          /\ pc' = "Last"
          /\ UNCHANGED <<cfg, backend, dir, disk, table, mem, alive, lastTouch>>

\* PostUpdate: the run condition resource_changed::<T> is checked, and when
\* it holds save_resource::<T> runs: set, and eprintln of an error
save_resource(f) ==
  /\ pc = "Update"
  /\ changed' = FALSE
  /\ mutated' = FALSE
  /\ UNCHANGED <<resource, startup, early, bVars>>
  /\ IF changed
     THEN LET e == Inner_set(type_name, resource, f)
          IN /\ Apply(e, "save", {type_name}, resource)
             /\ save' = e.res.kind
             /\ pc' = IF e.res.kind = "Panic" THEN "none" ELSE "Last"
     ELSE /\ save' = "skipped"
          /\ pc' = "Last"
          /\ UNCHANGED <<cfg, backend, dir, disk, table, mem, alive, lastTouch>>

\* the cycle ends and App::run starts the next one
App_update ==
  /\ pc = "Last"
  /\ pc' = "Update"
  /\ save' = "-"
  /\ early' = FALSE
  /\ checkedB' = FALSE
  /\ UNCHANGED <<cfg, backend, dir, disk, table, mem, alive, lastTouch, resource, changed, mutated, startup>>
  /\ UNCHANGED <<resourceB, changedB, startupB>>

\* the process ends; nothing is written on the way out
App_exit ==
  /\ pc \in {"plugins", "Update", "Last"}
  /\ pc' = "none"
  /\ alive' = FALSE
  /\ resource' = NoneV
  /\ changed' = FALSE
  /\ mutated' = FALSE
  /\ startup' = NoneV
  /\ save' = "-"
  /\ early' = FALSE
  /\ resourceB' = NoneV
  /\ changedB' = FALSE
  /\ startupB' = NoneV
  /\ checkedB' = FALSE
  /\ UNCHANGED <<cfg, backend, dir, disk, table, mem, lastTouch>>

AppNext ==
  \/ \E f \in NewFaults : App_new(f)
  \/ \E f \in GetFaults : PersistentResourcePlugin_build(f)
  \/ \E v \in Tracked : App_mutate(v)
  \/ \E v \in AppValues : App_set(v)
  \/ App_remove
  \/ \E f \in SetFaults : save_resource(f)
  \/ App_update
  \/ App_exit

AppSpec == Init /\ [][AppNext]_vars

(* ---------------------- two tracked resources ------------------------- *)
\* The App of examples/persistent_resource.rs tracks two resource types in
\* one store.  The plugin of the second type, B, is added before the plugin
\* of the first; PostUpdate runs the two save systems in either order, and
\* the application's systems run outside PostUpdate.

\* std::any::type_name::<B>(), the key of the second tracked resource
type_name_B == KeySeq[2]

\* the values the second resource takes
TrackedB == {UserV(StrPool[2], a) : a \in Ages}

\* B::default()
factoryB == UserV(StrPool[2], 0)

\* PostUpdate has run one of the two save systems and not yet the other
MidPostUpdate == (pc = "Update" /\ checkedB) \/ (pc = "Last" /\ ~checkedB)

\* Plugin::build of the plugin for B
PersistentResourcePlugin_build_B(f) ==
  LET g == Inner_get(type_name_B, "User", f)
  IN /\ pc = "plugins"
     /\ resourceB = NoneV
     /\ startupB' = [get |-> g, fault |-> f]
     /\ IF g.kind = "Panic"
        THEN /\ pc' = "none"
             /\ alive' = FALSE
             /\ UNCHANGED <<resourceB, changedB>>
        ELSE /\ resourceB' = (IF g.kind = "Ok" THEN g.val ELSE factoryB)
             /\ changedB' = TRUE
             /\ UNCHANGED <<pc, alive>>
     /\ UNCHANGED <<cfg, backend, dir, disk, table, mem, lastTouch, checkedB>>
     /\ UNCHANGED <<resource, changed, mutated, startup, save, early>>

\* a system of the application assigns through ResMut<B>
App_mutate_B(v) ==
  /\ pc \in {"Update", "Last"}
  /\ resourceB' = v
  /\ changedB' = TRUE
  /\ UNCHANGED <<cfg, backend, dir, disk, table, mem, alive, lastTouch, startupB, checkedB>>
  /\ UNCHANGED <<pc, resource, changed, mutated, startup, save, early>>

\* PostUpdate: resource_changed::<B> is checked, and when it holds
\* save_resource::<B> runs
save_resource_B(f) ==
  /\ pc \in {"Update", "Last"}
  /\ ~checkedB
  /\ checkedB' = TRUE
  /\ changedB' = FALSE
  /\ UNCHANGED <<resourceB, startupB, resource, changed, mutated, startup, save, early>>
  /\ IF changedB
     THEN LET e == Inner_set(type_name_B, resourceB, f)
          IN /\ Apply(e, "save", {type_name_B}, resourceB)
             /\ pc' = IF e.res.kind = "Panic" THEN "none" ELSE pc
     ELSE UNCHANGED <<cfg, backend, dir, disk, table, mem, alive, lastTouch, pc>>

TwoNext ==
  \/ \E f \in NewFaults : App_new(f)
  \/ \E f \in GetFaults : PersistentResourcePlugin_build_B(f)
  \/ \E f \in GetFaults : resourceB # NoneV /\ PersistentResourcePlugin_build(f)
  \/ \E v \in Tracked : ~MidPostUpdate /\ App_mutate(v)
  \/ \E v \in TrackedB : ~MidPostUpdate /\ App_mutate_B(v)
  \/ \E f \in SetFaults : save_resource(f)
  \/ \E f \in SetFaults : save_resource_B(f)
  \/ checkedB /\ App_update
  \/ App_exit

TwoSpec == Init /\ [][TwoNext]_vars

(* ----------------------- examples/migration.rs ------------------------ *)
\* An application that stores records of the older shape and reads them at
\* the newer shape, at the older shape, and at the unrelated shape User.

MigValues == {UserV1(s) : s \in Strings}
MigTypes == {"UserV1", "UserV2", "User"}

MigNext ==
  \/ \E f \in NewFaults : PkvStore_new(f)
  \/ \E k \in Keys, v \in MigValues, f \in SetFaults : PkvStore_set(k, v, f)
  \/ \E k \in Keys, T \in MigTypes, f \in GetFaults : PkvStore_get(k, T, f)

MigSpec == Init /\ [][MigNext]_vars

\* App::run keeps running the schedules of a cycle: PostUpdate follows
\* Update, and the next cycle follows Last
AppFair ==
  /\ AppSpec
  /\ WF_vars(\E f \in SetFaults : save_resource(f))
  /\ WF_vars(App_update)

(* ------------------------------ claims -------------------------------- *)

NotFound == Err("NotFound")

\* the last call that touched k succeeded, was op, and ran in this instance
Last(k, op) == alive /\ lastTouch[k].op = op /\ lastTouch[k].inst = "this"

\* C1: round trip.  While the last call that touched k is a successful
\* set(k, v) of this store, get(k) at the type of v returns Ok(v), whatever
\* was done to the other keys since.
C1_RoundTrip ==
  \A k \in Keys :
    Last(k, "set") =>
      Inner_get(k, TypeOf(lastTouch[k].val), "none") = Ok(lastTouch[k].val)

\* a User was set under one key and the other key was removed afterwards
C1_Witness ==
  \E k \in Keys, j \in Keys :
    /\ k # j
    /\ Last(k, "set") /\ TypeOf(lastTouch[k].val) = "User"
    /\ Last(j, "remove") /\ lastTouch[j].prev = "set"
    /\ Inner_get(k, "User", "none") = Ok(lastTouch[k].val)

\* a step in which op touched k and succeeded, in this store instance
Step(k, op) ==
  /\ lastTouch'[k] # lastTouch[k]
  /\ lastTouch'[k].op = op
  /\ lastTouch'[k].inst = "this"

\* C2: overwrite.  After a successful set(k, v2) that follows a successful
\* set(k, v1), get(k) at the type of v2 returns v2; and when v2 differs from
\* v1 the record of v1 is no longer the one under k.
C2_Overwrite ==
  /\ [](\A k \in Keys :
         (Last(k, "set") /\ lastTouch[k].prev = "set")
           => Inner_get(k, TypeOf(lastTouch[k].val), "none") = Ok(lastTouch[k].val))
  /\ [][\A k \in Keys :
         (Last(k, "set") /\ Step(k, "set") /\ lastTouch'[k].val # lastTouch[k].val)
           => Visible'[k] # Visible[k]
      ]_vars

\* a key was set twice in a row
C2_Witness ==
  \E k \in Keys :
    /\ Last(k, "set") /\ lastTouch[k].prev = "set"
    /\ Inner_get(k, TypeOf(lastTouch[k].val), "none") = Ok(lastTouch[k].val)

\* the store is constructed, the location holds no data and has not been
\* touched
Fresh == alive /\ disk = Empty /\ \A k \in Keys : lastTouch[k] = NoTouch

\* C3: absence.  On a freshly constructed store whose location holds no
\* data, get(k) returns GetError::NotFound for every key and type, on every
\* backend.
C3_Absence ==
  Fresh => \A k \in Keys, T \in Types : Inner_get(k, T, "none") = NotFound

\* C4: bulk clear.  When every key was written by a successful set or
\* set_string and clear() then returned Ok, get returns GetError::NotFound
\* for every one of the keys.
C4_BulkClear ==
  (\A k \in Keys : Last(k, "clear") /\ lastTouch[k].prev \in {"set", "set_string"})
    => \A k \in Keys, T \in Types : Inner_get(k, T, "none") = NotFound

\* C5: set_string compatibility.  While the last call that touched k is a
\* successful set_string(k, s), get::<String>(k) returns Ok(s), as it does
\* after set(k, &s.to_string()), on every backend.
C5_SetStringCompat ==
  \A k \in Keys :
    Last(k, "set_string") => Inner_get(k, "String", "none") = Ok(lastTouch[k].val)

\* C6: removal.  After set(k, v) succeeded and remove(k) then succeeded,
\* get(k) returns GetError::NotFound at every type.
C6_Removal ==
  \A k \in Keys :
    (Last(k, "remove") /\ lastTouch[k].prev = "set")
      => \A T \in Types : Inner_get(k, T, "none") = NotFound

\* a key was set and then removed while the other key holds a record
C6_Witness ==
  \E k \in Keys, j \in Keys :
    /\ Last(k, "remove") /\ lastTouch[k].prev = "set"
    /\ Visible[j] # Absent
    /\ Inner_get(k, "User", "none") = NotFound

\* C7: remove is idempotent on absence.  remove(k) of a key without a
\* record returns Ok and changes nothing; a remove that finds no record
\* leaves the key-to-record map as it was.
C7_RemoveAbsent ==
  /\ [](\A k \in Keys :
         (alive /\ Visible[k] = Absent) => StoreImpl_remove(k, "none") = NoChange(Ok(UnitV)))
  /\ [][\A k \in Keys :
         (alive /\ Visible[k] = Absent /\ Step(k, "remove"))
           => UNCHANGED <<disk, mem, table>>
      ]_vars

\* a key without a record was removed while the other key holds one
C7_Witness ==
  \E k \in Keys, j \in Keys :
    /\ Last(k, "remove") /\ lastTouch[k].prev = "absent"
    /\ Visible[j] # Absent

\* C8: remove_and_get.  A remove_and_get(k) that finds a record returns
\* Some value (the value v that was set, when asked at the type of v) and in
\* the same step the key loses its record, so that get(k) returns NotFound;
\* one that finds no record returns Ok(None) and changes nothing.
C8_RemoveAndGet ==
  /\ [](\A k \in Keys :
         (Last(k, "remove_and_get") /\ lastTouch[k].val # NoneV)
           => \A T \in Types : Inner_get(k, T, "none") = NotFound)
  /\ [][\A k \in Keys :
         (alive /\ Step(k, "remove_and_get"))
           => IF Visible[k] = Absent
              THEN lastTouch'[k].val = NoneV /\ UNCHANGED <<disk, mem, table>>
              ELSE /\ lastTouch'[k].val # NoneV
                   /\ Visible'[k] = Absent
                   /\ (Last(k, "set") /\ TypeOf(lastTouch'[k].val) = TypeOf(lastTouch[k].val))
                        => lastTouch'[k].val = lastTouch[k].val
      ]_vars

\* remove_and_get returned a User and, for another key, None
C8_Witness ==
  \E k \in Keys, j \in Keys :
    /\ Last(k, "remove_and_get") /\ TypeOf(lastTouch[k].val) = "User"
    /\ Last(j, "remove_and_get") /\ lastTouch[j].val = NoneV
    /\ Inner_get(k, "User", "none") = NotFound

\* a decode-error variant of GetError
IsDecodeError(res) == res.kind = "Err" /\ res.err \in {"MessagePack", "Json", "Bincode"}

\* C9: decode failure on get.  While k holds the record of a String, which
\* does not decode as a User, get::<User>(k) returns a decode-error variant
\* of GetError: not NotFound and not a panic.
C9_DecodeFailure ==
  \A k \in Keys :
    (Last(k, "set") /\ TypeOf(lastTouch[k].val) = "String")
      => IsDecodeError(Inner_get(k, "User", "none"))

\* C10: durability across store instances.  A value written by a successful
\* set(k, v) in an earlier store instance, with no call touching k since, is
\* returned by get(k) of the store instance constructed later on the same
\* location.
C10_Durability ==
  \A k \in Keys :
    (alive /\ lastTouch[k].op = "set" /\ lastTouch[k].inst = "earlier")
      => Inner_get(k, TypeOf(lastTouch[k].val), "none") = Ok(lastTouch[k].val)

(* ------------------------ claims on the plugin ------------------------- *)

\* the App runs its cycles: the plugin is built and the resource inserted
Loaded == pc \in {"Update", "Last"}

\* the state build leaves: the resource is inserted and neither checked by the
\* run condition nor mutated yet
Installed == pc = "Update" /\ changed /\ ~mutated

\* the value build inserted in this run
InstalledValue == IF startup.get.kind = "Ok" THEN startup.get.val ELSE factory

\* get of the tracked key at the tracked type, as the next run would call it
Stored == Inner_get(type_name, "User", "none")

\* the last call that touched the tracked key is a successful set by the
\* save step of this run
SavedLast == lastTouch[type_name].op = "save" /\ lastTouch[type_name].inst = "this"

\* a step in which the save step called set
SaveCalledSet == pc = "Update" /\ save' \in {"Ok", "Err", "Panic"}

\* C11: lifecycle startup.  A build whose get met no engine failure ends in
\* Loaded with a value: the decoded stored value when get returned Ok, the
\* output of the factory when get returned NotFound or the record does not
\* decode; it does not panic.
C11_Startup ==
  /\ (startup # NoneV /\ startup.fault = "none") => startup.get.kind # "Panic"
  /\ Installed =>
       /\ resource # NoneV
       /\ startup.get.kind = "Ok" => resource = startup.get.val
       /\ (startup.get = NotFound \/ IsDecodeError(startup.get)) => resource = factory

\* C12: no write without a change.  The save step calls set only when the
\* application mutated the resource since the run condition was last
\* checked; the insertion by build alone triggers no set.
C12_NoWriteWithoutChange ==
  [][SaveCalledSet => mutated]_vars

C14_NoLostUpdates_Original ==
  (Loaded /\ ~changed /\ resource # InstalledValue
     /\ lastTouch[type_name].op \in {"save", "failed"} /\ lastTouch[type_name].inst = "this")
    => Stored = Ok(resource)

\* C14, amended: after any mutation, if the App keeps running cycles, the
\* next save step calls set with the value the resource has then: either
\* that set succeeds and get returns the value of the resource, or it fails
\* and the value stays unwritten until the next mutation; and while the set
\* of the latest save step succeeded and no change is pending, get returns
\* the value of the resource.
C14_NoLostUpdates ==
  /\ (Loaded /\ mutated) ~>
       \/ pc = "none"
       \/ save = "Err" /\ ~changed
       \/ save = "Ok" /\ SavedLast /\ Stored = Ok(resource)
  /\ []((Loaded /\ ~changed /\ SavedLast) => Stored = Ok(resource))

\* a mutation made after the save step was written in the next cycle
C14_Witness ==
  /\ pc = "Last" /\ save = "Ok" /\ SavedLast /\ ~changed /\ ~early
  /\ resource # InstalledValue
  /\ Stored = Ok(resource)

\* C15: a failed autosave is not fatal.  A save step whose set fails does
\* not panic: it leaves the App in its cycle with the resource as it was and
\* no change pending, so that there is no retry before the next mutation.
C15_FailedAutosave ==
  /\ [](save # "Panic")
  /\ [][(SaveCalledSet /\ save' = "Err")
          => (pc' = "Last" /\ resource' = resource /\ ~changed')]_vars

\* C16: load happens before write.  In every run the save step calls set
\* only after build of that run has called get and inserted the loaded or
\* the default value; while the App runs its cycles the load is done.
C16_LoadBeforeWrite ==
  /\ [](Loaded => (startup # NoneV /\ resource # NoneV))
  /\ [][SaveCalledSet => (startup # NoneV /\ resource # NoneV)]_vars

\* a value loaded from the store was mutated and saved
C16_Witness ==
  /\ pc = "Last" /\ save = "Ok" /\ SavedLast
  /\ startup # NoneV /\ startup.get.kind = "Ok"
  /\ resource # startup.get.val

\* C17: persistence across runs.  When the last call that touched the key is
\* a successful set by the save step of an earlier run, build of this run
\* (its get meeting no engine failure) gets that value and inserts it; the
\* factory is not used.
C17_AcrossRuns ==
  (Installed /\ startup.fault = "none"
     /\ lastTouch[type_name].op = "save" /\ lastTouch[type_name].inst = "earlier")
    => (startup.get = Ok(lastTouch[type_name].val) /\ resource = lastTouch[type_name].val)

(* ------------------- claims on construction and codecs ----------------- *)

\* the backends whose set serializes with_struct_map: the field names are
\* in the record
FieldTagged == {"redb", "sled"}

OnDisk == {"redb", "sled", "pickledb"}

\* C19: construction.  On every on-disk backend a store that was constructed
\* has its directory, created when it was absent, and a storage engine that
\* cannot be opened makes the construction panic.
C19_Construction ==
  /\ (alive /\ backend \in OnDisk) => dir = "present"
  /\ backend \in OnDisk => \A f \in NewFaults \ {"none"} : Inner_new(f).res = Panic

\* C20: typed errors on write.  Whatever step of set, set_string or clear
\* the engine fails at, the call returns an Err; and a set or set_string
\* that fails leaves the records as they were.
C20_TypedErrors ==
  alive =>
    /\ \A k \in Keys, v \in Values, f \in SetFaults \ {"none"} :
         Inner_set(k, v, f) = NoChange(Err(Inner_set(k, v, f).res.err))
    /\ \A k \in Keys, s \in Strings, f \in SetFaults \ {"none"} :
         Inner_set_string(k, s, f) = NoChange(Err(Inner_set_string(k, s, f).res.err))
    /\ \A c \in ClearInputs : c[1] # "none" => Inner_clear(c[1], c[2]).res.kind = "Err"

(* ------------------------- claims on the whole ------------------------- *)

\* what get can see after a call with effect e
VisibleAfter(e) == IF backend = "pickledb" THEN e.mem ELSE e.disk

\* C21: clear is complete-or-nothing for its caller: whenever clear returns,
\* either it returned Ok and no key is visible any more, or it returned an
\* error and every key visible before the call still has its value; this
\* includes the backends that clear key by key.
C21_ClearAllOrNothing ==
  alive => \A c \in ClearInputs :
    LET e == Inner_clear(c[1], c[2])
    IN \/ e.res.kind = "Ok" /\ VisibleAfter(e) = Empty
       \/ e.res.kind = "Err" /\ VisibleAfter(e) = Visible

\* C22: the startup load does not swallow storage failures.  When a record
\* written in an earlier run is stored under the tracked key and decodes at
\* the tracked type, build installs that record's value whatever happens to
\* its get: an engine failure of the get is not taken for "no saved value",
\* so the factory's output does not replace the record.
C22_StartupStorageFailure ==
  (Installed /\ lastTouch[type_name].inst = "earlier" /\ Stored.kind = "Ok")
    => (startup.get.kind = "Ok" /\ resource = Stored.val)

\* a call with effect e leaves what get of key j returns as it is: the record
\* of j, and on redb the existence of the table that get opens
KeepsGet(e, j) ==
  /\ VisibleAfter(e)[j] = Visible[j]
  /\ backend = "redb" => e.table = table

\* C25: writes act on their key only.  set(k, v), set_string(k, s), remove(k)
\* and remove_and_get(k), failed or not, leave the result of get unchanged
\* for every other key.
C25_KeyLocalWrites ==
  alive => \A k \in Keys : \A j \in Keys \ {k} :
    /\ \A v \in Values, f \in SetFaults : KeepsGet(Inner_set(k, v, f), j)
    /\ \A s \in Strings, f \in SetFaults : KeepsGet(Inner_set_string(k, s, f), j)
    /\ \A f \in RemoveFaults : KeepsGet(StoreImpl_remove(k, f), j)
    /\ \A T \in Types, f \in RemoveFaults, keep \in BOOLEAN :
         KeepsGet(StoreImpl_remove_and_get(k, T, f, keep), j)

\* every key was last touched by a clear of this instance that returned Ok
Cleared == \A k \in Keys : Last(k, "clear")

\* a set(k, v) that meets no engine failure returns Ok, and get(k) then
\* returns v
SetThenGet(k, v) ==
  LET e == Inner_set(k, v, "none")
  IN /\ e.res = Ok(UnitV)
     /\ Codec_decode(TypeOf(v), VisibleAfter(e)[k]) = Ok(v)
     /\ backend = "redb" => e.table

\* C26: the store stays usable after clear.  After a clear that returned Ok
\* the store behaves like a freshly constructed empty one: get of any key
\* returns GetError::NotFound, a set(k, v) succeeds and get(k) then returns
\* v, and a second clear succeeds; this includes redb, which clears by
\* deleting its table.
C26_UsableAfterClear ==
  Cleared =>
    /\ \A k \in Keys, T \in Types : Inner_get(k, T, "none") = NotFound
    /\ \A k \in Keys, v \in Values : "none" \in SetFaults => SetThenGet(k, v)
    /\ Inner_clear("none", {}).res = Ok(UnitV)
    /\ VisibleAfter(Inner_clear("none", {})) = Empty

\* C27: store-manager consistency.  In every state after startup in which
\* the last call that touched the tracked key is a successful set by the save
\* step of this run (so no other code wrote, removed or cleared the key
\* since) and the resource has not been mutated since that save, the record
\* stored under the key decodes to the value of the resource.
C27_StoreManagerConsistent ==
  (Loaded /\ SavedLast /\ ~mutated)
    => Codec_decode("User", Visible[type_name]) = Ok(resource)

\* a cycle after the one that saved a mutation: the record still decodes to
\* the resource
C27_Witness ==
  /\ pc = "Update" /\ save = "-" /\ SavedLast /\ ~mutated
  /\ resource # InstalledValue
  /\ Codec_decode("User", Visible[type_name]) = Ok(resource)

\* C24: build-time backend selection.  For every combination of the three
\* native backend flags and the wasm target the build is rejected or exactly
\* one backend is bound as InnerStore; with two or more native backends
\* enabled the build is rejected, and so is a native build with none.
C24_BackendSelection ==
  /\ Rejected(cfg) \/ Cardinality(Imported(cfg)) = 1
  /\ backend # Unbound => Imported(cfg) = {backend}
  /\ Cardinality(cfg \cap Native) >= 2 => (Rejected(cfg) /\ backend = Unbound)
  /\ ("wasm" \notin cfg /\ cfg \cap Native = {}) => (Rejected(cfg) /\ backend = Unbound)

\* a build with only the sled flag: SledStore is bound and a store constructed
C24_Witness ==
  /\ cfg = {"sled_backend"}
  /\ backend = "sled"
  /\ alive

\* a step in which PostUpdate checked the second resource
SaveStepB == ~checkedB /\ checkedB'

\* C23: independent tracked values.  Two types tracked in one store have
\* different keys; the save step of one leaves the record under the other's
\* key as it is; and in the next run each of them is loaded with its own
\* last saved value.
C23_IndependentTracked ==
  /\ [](type_name # type_name_B)
  /\ [][SaveCalledSet => Visible'[type_name_B] = Visible[type_name_B]]_vars
  /\ [][SaveStepB => Visible'[type_name] = Visible[type_name]]_vars
  /\ []((Installed /\ startup.fault = "none"
           /\ lastTouch[type_name].op = "save" /\ lastTouch[type_name].inst = "earlier")
         => resource = lastTouch[type_name].val)
  /\ []((pc = "plugins" /\ resourceB # NoneV /\ startupB.fault = "none"
           /\ lastTouch[type_name_B].op = "save" /\ lastTouch[type_name_B].inst = "earlier")
         => resourceB = lastTouch[type_name_B].val)

====
